---- MODULE Spec2Model ----
(***************************************************************************)
(* The throttled receiver of src/rust/src/main.rs: a tokio watch channel   *)
(* (single slot, latest value wins), the consumer loop throttled_receiver  *)
(* and the driver of the test throttle_outputs_expected_messages, which    *)
(* races a producer block against the consumer in one select! on a         *)
(* current_thread runtime.                                                 *)
(*                                                                         *)
(* Time is the number of whole milliseconds elapsed since `start`.  A      *)
(* branch of the select! runs from the moment it is polled to its next     *)
(* pending await; the clock advances only when no branch can run, and then *)
(* to the earliest timer deadline.                                         *)
(***************************************************************************)
EXTENDS Integers, Sequences, FiniteSets, TLC

\* const THROTTLE_MS: u64 = 1000;
THROTTLE_MS == 1000

\* the 1100 of `pairs.last().unwrap().0 + 1100`
WRAP_UP_MS == 1100

\* --------------------------------------------------------------------------
\* Bounds of the explored inputs
\* --------------------------------------------------------------------------
\* longest `pairs` array explored besides the one of the test
MaxPairs == 3
\* send times explored are the multiples of Unit up to MaxK * Unit
MaxK == 8
\* number of sends an arbitrary caller performs
MaxSends == 2

Unit == THROTTLE_MS \div 5
Times == {k * Unit : k \in 0..MaxK}

Letters == <<"a", "b", "c", "d", "e", "f", "g", "h", "i", "j", "k", "l">>

\* the `pairs` array of the test
TestPairs ==
  << <<0, "a">>, <<600, "b">>, <<1200, "c">>, <<1800, "d">>, <<2050, "e">>,
     <<2075, "f">>, <<2100, "g">>, <<2150, "h">>, <<2200, "i">> >>

\* the `expected` array of the test
expected ==
  << <<"a", 0, 0>>, <<"b", 600, 1000>>, <<"d", 1800, 2000>>, <<"i", 2200, 3000>> >>

\* assert!(pairs.is_sorted())
is_sorted(ps) == \A i \in 1..(Len(ps) - 1) : ps[i][1] <= ps[i + 1][1]

\* the arrays the producer block is run on: non-empty, sorted by time
PairsInputs ==
  {TestPairs} \cup
  UNION { { ps \in { [i \in 1..n |-> <<ts[i], Letters[i]>>] : ts \in [1..n -> Times] } :
              is_sorted(ps) } :
          n \in 1..MaxPairs }

\* variant: the wrap-up sleep is shorter than the throttle window
wrap_up_time_Short(ps) == ps[Len(ps)][1] + (WRAP_UP_MS - THROTTLE_MS)

\* let wrap_up_time = pairs.last().unwrap().0 + 1100;
wrap_up_time(ps) == ps[Len(ps)][1] + WRAP_UP_MS

\* --------------------------------------------------------------------------
\* tokio::sync::watch, as the program uses it
\* --------------------------------------------------------------------------
\* variant: the initial value counts as a change the new handle has not seen
channel_Unseen == [value |-> <<"", 0>>, version |-> 1, closed |-> FALSE, receivers |-> 1]

\* watch::channel(("".to_string(), 0u128))
channel == [value |-> <<"", 0>>, version |-> 0, closed |-> FALSE, receivers |-> 1]

\* tx.send(v): overwrite the slot and bump the version; fails, leaving the
\* slot alone, when no receiver is left
send(ch, v) ==
  IF ch.receivers = 0 THEN ch
  ELSE [ch EXCEPT !.value = v, !.version = @ + 1]

\* variant: the changed flag is never cleared once a value has been sent
changed_Sticky(ch, seen) ==
  IF ch.version # 0 THEN "Ok"
  ELSE IF ch.closed THEN "Err"
  ELSE "Pending"

\* variant: a dropped sender is reported before an unseen version
changed_ClosedFirst(ch, seen) ==
  IF ch.closed THEN "Err"
  ELSE IF ch.version # seen THEN "Ok"
  ELSE "Pending"

\* one poll of rx.changed(): a version the handle has not seen is reported
\* first, then a dropped sender, else the call stays pending
changed(ch, seen) ==
  IF ch.version # seen THEN "Ok"
  ELSE IF ch.closed THEN "Err"
  ELSE "Pending"

\* rx.borrow().clone()
borrow(ch) == ch.value

VARIABLES
  now,         \* start.elapsed().as_millis()
  pairs,       \* the array the producer block iterates over
  chan,        \* the state shared by tx and rx
  rx_version,  \* the version rx has marked as seen
  rx_woken,    \* the waker rx registered in changed() has been fired
  received,    \* the Vec the consumer pushes to
  polling,     \* the branch of the select! that is running
  p_pc, p_i, last_time, elapsed, p_deadline,      \* producer block
  c_pc, read_at, msg_sent_at, c_deadline,         \* throttled_receiver
  sent,        \* history: the tuples passed to tx.send, in order
  n_read,      \* history: Len(sent) when read_at was taken
  reads        \* history: n_read of every record of `received`

vars == <<now, pairs, chan, rx_version, rx_woken, received, polling,
          p_pc, p_i, last_time, elapsed, p_deadline,
          c_pc, read_at, msg_sent_at, c_deadline, sent, n_read, reads>>

chanVars == <<chan, rx_version, rx_woken>>
pVars == <<p_pc, p_i, last_time, elapsed, p_deadline>>
cVars == <<c_pc, read_at, msg_sent_at, c_deadline>>
hVars == <<sent, n_read, reads>>

Init ==
  /\ now = 0
  /\ pairs \in PairsInputs
  /\ chan = channel
  /\ rx_version = 0
  /\ rx_woken = FALSE
  /\ received = <<>>
  /\ polling = "none"
  /\ p_pc = "for" /\ p_i = 1 /\ last_time = 0 /\ elapsed = 0 /\ p_deadline = 0
  /\ c_pc = "loop" /\ read_at = 0 /\ msg_sent_at = <<"", 0>> /\ c_deadline = 0
  /\ sent = <<>> /\ n_read = 0 /\ reads = <<>>

\* --------------------------------------------------------------------------
\* The select! and the clock
\* --------------------------------------------------------------------------
ProducerReady ==
  \/ p_pc = "for"
  \/ p_pc \in {"sleep", "wrap_up"} /\ now >= p_deadline

ConsumerReady ==
  \/ c_pc = "loop"
  \/ c_pc = "changed" /\ rx_woken
  \/ c_pc = "sleep" /\ now >= c_deadline

\* tokio::select! polls its branches in a random order
PollProducer ==
  /\ polling = "none" /\ ProducerReady
  /\ polling' = "producer"
  /\ UNCHANGED <<now, pairs, chanVars, received, pVars, cVars, hVars>>

PollConsumer ==
  /\ polling = "none" /\ ConsumerReady
  /\ polling' = "consumer"
  /\ UNCHANGED <<now, pairs, chanVars, received, pVars, cVars, hVars>>

Deadlines ==
  (IF p_pc \in {"sleep", "wrap_up"} THEN {p_deadline} ELSE {}) \cup
  (IF c_pc = "sleep" THEN {c_deadline} ELSE {})

\* the runtime parks until the earliest timer fires
Tick ==
  /\ polling = "none" /\ ~ProducerReady /\ ~ConsumerReady
  /\ Deadlines # {}
  /\ now' = CHOOSE d \in Deadlines : \A e \in Deadlines : d <= e
  /\ UNCHANGED <<pairs, chanVars, received, polling, pVars, cVars, hVars>>

\* --------------------------------------------------------------------------
\* The producer block of the test
\* --------------------------------------------------------------------------
\* for (time, msg) in pairs { sleep(time - last_time).await   and, after the
\* loop, sleep(wrap_up_time).await
P_For ==
  /\ polling = "producer" /\ p_pc = "for"
  /\ IF p_i <= Len(pairs)
       THEN /\ p_deadline' = now + (pairs[p_i][1] - last_time)
            /\ p_pc' = "sleep"
       ELSE /\ p_deadline' = now + wrap_up_time(pairs)
            /\ p_pc' = "wrap_up"
  /\ polling' = "none"
  /\ UNCHANGED <<now, pairs, chanVars, received, p_i, last_time, elapsed, cVars, hVars>>

\* the sleep of the loop body has elapsed
P_Slept ==
  /\ polling = "producer" /\ p_pc = "sleep"
  /\ p_pc' = "elapsed"
  /\ UNCHANGED <<now, pairs, chanVars, received, polling, p_i, last_time, elapsed,
                 p_deadline, cVars, hVars>>

\* variant: the time since the previous send is stamped, not the time since start
P_Elapsed_Delta ==
  /\ polling = "producer" /\ p_pc = "elapsed"
  /\ elapsed' = pairs[p_i][1] - last_time
  /\ p_pc' = "send"
  /\ UNCHANGED <<now, pairs, chanVars, received, polling, p_i, last_time,
                 p_deadline, cVars, hVars>>

\* let elapsed = start.elapsed().as_millis();
P_Elapsed ==
  /\ polling = "producer" /\ p_pc = "elapsed"
  /\ elapsed' = now
  /\ p_pc' = "send"
  /\ UNCHANGED <<now, pairs, chanVars, received, polling, p_i, last_time,
                 p_deadline, cVars, hVars>>

\* variant: the send stores the value but wakes nobody
P_Send_NoNotify ==
  /\ polling = "producer" /\ p_pc = "send"
  /\ chan' = send(chan, <<pairs[p_i][2], elapsed>>)
  /\ sent' = Append(sent, <<pairs[p_i][2], elapsed>>)
  /\ last_time' = pairs[p_i][1]
  /\ p_i' = p_i + 1
  /\ p_pc' = "for"
  /\ UNCHANGED <<now, pairs, rx_version, rx_woken, received, polling, elapsed,
                 p_deadline, cVars, n_read, reads>>

\* variant: a bounded channel, whose send suspends while the previous value
\* has not been observed
P_Send_Blocking ==
  /\ polling = "producer" /\ p_pc = "send"
  /\ IF chan.version # rx_version
       THEN /\ polling' = "none"
            /\ UNCHANGED <<chan, rx_woken, sent, last_time, p_i, p_pc>>
       ELSE /\ chan' = send(chan, <<pairs[p_i][2], elapsed>>)
            /\ rx_woken' = (rx_woken \/ c_pc = "changed")
            /\ sent' = Append(sent, <<pairs[p_i][2], elapsed>>)
            /\ last_time' = pairs[p_i][1]
            /\ p_i' = p_i + 1
            /\ p_pc' = "for"
            /\ polling' = polling
  /\ UNCHANGED <<now, pairs, rx_version, received, elapsed, p_deadline,
                 cVars, n_read, reads>>

\* let _ = tx.send((msg.to_string(), elapsed)); last_time = time;
P_Send ==
  /\ polling = "producer" /\ p_pc = "send"
  /\ chan' = send(chan, <<pairs[p_i][2], elapsed>>)
  /\ rx_woken' = (rx_woken \/ c_pc = "changed")
  /\ sent' = Append(sent, <<pairs[p_i][2], elapsed>>)
  /\ last_time' = pairs[p_i][1]
  /\ p_i' = p_i + 1
  /\ p_pc' = "for"
  /\ UNCHANGED <<now, pairs, rx_version, received, polling, elapsed, p_deadline,
                 cVars, n_read, reads>>

\* the wrap-up sleep has elapsed: the producer branch completes, the select!
\* returns and drops the consumer future with its receiver
P_Done ==
  /\ polling = "producer" /\ p_pc = "wrap_up"
  /\ p_pc' = "done"
  /\ c_pc' = "dropped"
  /\ chan' = [chan EXCEPT !.receivers = 0]
  /\ polling' = "none"
  /\ UNCHANGED <<now, pairs, rx_version, rx_woken, received, p_i, last_time, elapsed,
                 p_deadline, read_at, msg_sent_at, c_deadline, hVars>>

\* --------------------------------------------------------------------------
\* throttled_receiver
\* --------------------------------------------------------------------------
\* variant: a call of changed() made at the head of the loop waits for the next
\* notification without looking at the version first
C_Changed_LostWakeup ==
  /\ polling = "consumer" /\ c_pc \in {"loop", "changed"}
  /\ LET r == IF c_pc = "loop" /\ ~chan.closed THEN "Pending"
              ELSE changed(chan, rx_version) IN
       /\ rx_version' = IF r = "Ok" THEN chan.version ELSE rx_version
       /\ c_pc' = CASE r = "Ok" -> "read_at"
                    [] r = "Err" -> "panicked"
                    [] OTHER -> "changed"
       /\ polling' = IF r = "Ok" THEN "consumer" ELSE "none"
  /\ rx_woken' = FALSE
  /\ UNCHANGED <<now, pairs, chan, received, pVars, read_at, msg_sent_at, c_deadline,
                 hVars>>

\* variant: a successful changed() does not mark the version as seen
C_Changed_NoMark ==
  /\ polling = "consumer" /\ c_pc \in {"loop", "changed"}
  /\ LET r == changed(chan, rx_version) IN
       /\ c_pc' = CASE r = "Ok" -> "read_at"
                    [] r = "Err" -> "panicked"
                    [] OTHER -> "changed"
       /\ polling' = IF r = "Ok" THEN "consumer" ELSE "none"
  /\ rx_woken' = FALSE
  /\ UNCHANGED <<now, pairs, chan, rx_version, received, pVars, read_at, msg_sent_at,
                 c_deadline, hVars>>

\* rx.changed().await.unwrap();
C_Changed ==
  /\ polling = "consumer" /\ c_pc \in {"loop", "changed"}
  /\ LET r == changed(chan, rx_version) IN
       /\ rx_version' = IF r = "Ok" THEN chan.version ELSE rx_version
       /\ c_pc' = CASE r = "Ok" -> "read_at"
                    [] r = "Err" -> "panicked"
                    [] OTHER -> "changed"
       /\ polling' = IF r = "Ok" THEN "consumer" ELSE "none"
  /\ rx_woken' = FALSE
  /\ UNCHANGED <<now, pairs, chan, received, pVars, read_at, msg_sent_at, c_deadline,
                 hVars>>

\* variant: read_at is the time taken at the head of the loop, before the wait
C_ReadAt_BeforeWait ==
  /\ polling = "consumer" /\ c_pc = "read_at"
  /\ read_at' = c_deadline
  /\ n_read' = Len(sent)
  /\ c_pc' = "borrow"
  /\ UNCHANGED <<now, pairs, chanVars, received, polling, pVars, msg_sent_at,
                 c_deadline, sent, reads>>

\* variant: the consumer yields to the scheduler after taking read_at
C_ReadAt_Yield ==
  /\ polling = "consumer" /\ c_pc = "read_at"
  /\ read_at' = now
  /\ n_read' = Len(sent)
  /\ c_pc' = "borrow"
  /\ polling' = "none"
  /\ UNCHANGED <<now, pairs, chanVars, received, pVars, msg_sent_at,
                 c_deadline, sent, reads>>

\* let read_at = start.elapsed().as_millis();
C_ReadAt ==
  /\ polling = "consumer" /\ c_pc = "read_at"
  /\ read_at' = now
  /\ n_read' = Len(sent)
  /\ c_pc' = "borrow"
  /\ UNCHANGED <<now, pairs, chanVars, received, polling, pVars, msg_sent_at,
                 c_deadline, sent, reads>>

\* variant: the value is borrowed once, before the loop
C_Borrow_Hoisted ==
  /\ polling = "consumer" /\ c_pc = "borrow"
  /\ msg_sent_at' = borrow(channel)
  /\ c_pc' = "push"
  /\ UNCHANGED <<now, pairs, chanVars, received, polling, pVars, read_at,
                 c_deadline, hVars>>

\* variant: the value is moved out of the slot, which is left with the
\* initial value
C_Borrow_Take ==
  /\ polling = "consumer" /\ c_pc = "borrow"
  /\ msg_sent_at' = borrow(chan)
  /\ chan' = [chan EXCEPT !.value = channel.value]
  /\ c_pc' = "push"
  /\ UNCHANGED <<now, pairs, rx_version, rx_woken, received, polling, pVars, read_at,
                 c_deadline, hVars>>

\* let (msg, sent_at) = rx.borrow().clone();
C_Borrow ==
  /\ polling = "consumer" /\ c_pc = "borrow"
  /\ msg_sent_at' = borrow(chan)
  /\ c_pc' = "push"
  /\ UNCHANGED <<now, pairs, chanVars, received, polling, pVars, read_at,
                 c_deadline, hVars>>

\* variant: the two timestamps of the tuple are swapped
C_Push_Swapped ==
  /\ polling = "consumer" /\ c_pc = "push"
  /\ received' = Append(received, <<msg_sent_at[1], read_at, msg_sent_at[2]>>)
  /\ reads' = Append(reads, n_read)
  /\ c_pc' = "throttle"
  /\ UNCHANGED <<now, pairs, chanVars, polling, pVars, read_at, msg_sent_at,
                 c_deadline, sent, n_read>>

\* output.borrow_mut().push((msg, sent_at, read_at));
C_Push ==
  /\ polling = "consumer" /\ c_pc = "push"
  /\ received' = Append(received, <<msg_sent_at[1], msg_sent_at[2], read_at>>)
  /\ reads' = Append(reads, n_read)
  /\ c_pc' = "throttle"
  /\ UNCHANGED <<now, pairs, chanVars, polling, pVars, read_at, msg_sent_at,
                 c_deadline, sent, n_read>>

\* variant: the throttle window is counted from the send, not from the read
C_Sleep_FromSent ==
  /\ polling = "consumer" /\ c_pc = "throttle"
  /\ c_deadline' = msg_sent_at[2] + THROTTLE_MS
  /\ c_pc' = "sleep"
  /\ polling' = "none"
  /\ UNCHANGED <<now, pairs, chanVars, received, pVars, read_at, msg_sent_at, hVars>>

\* variant: Duration::from_micros in place of Duration::from_millis
C_Sleep_Micros ==
  /\ polling = "consumer" /\ c_pc = "throttle"
  /\ c_deadline' = now + (THROTTLE_MS \div 1000)
  /\ c_pc' = "sleep"
  /\ polling' = "none"
  /\ UNCHANGED <<now, pairs, chanVars, received, pVars, read_at, msg_sent_at, hVars>>

\* sleep(Duration::from_millis(THROTTLE_MS)).await: the timer is registered
C_Sleep ==
  /\ polling = "consumer" /\ c_pc = "throttle"
  /\ c_deadline' = now + THROTTLE_MS
  /\ c_pc' = "sleep"
  /\ polling' = "none"
  /\ UNCHANGED <<now, pairs, chanVars, received, pVars, read_at, msg_sent_at, hVars>>

\* the throttle sleep has elapsed: back to the head of the loop
C_Slept ==
  /\ polling = "consumer" /\ c_pc = "sleep"
  /\ c_pc' = "loop"
  /\ UNCHANGED <<now, pairs, chanVars, received, polling, pVars, read_at, msg_sent_at,
                 c_deadline, hVars>>

Next ==
  \/ PollProducer \/ PollConsumer \/ Tick
  \/ P_For \/ P_Slept \/ P_Elapsed \/ P_Send \/ P_Done
  \/ C_Changed \/ C_ReadAt \/ C_Borrow \/ C_Push \/ C_Sleep \/ C_Slept

Spec == Init /\ [][Next]_vars

\* the runtime keeps polling a task that can run and keeps firing timers
FairSpec == Spec /\ WF_vars(Next)

\* --------------------------------------------------------------------------
\* throttled_receiver run by an arbitrary owner of the sender
\* --------------------------------------------------------------------------
InitCaller ==
  /\ now = 0
  /\ pairs = <<>>
  /\ chan = channel
  /\ rx_version = 0
  /\ rx_woken = FALSE
  /\ received = <<>>
  /\ polling = "none"
  /\ p_pc = "caller" /\ p_i = 1 /\ last_time = 0 /\ elapsed = 0 /\ p_deadline = 0
  /\ c_pc = "loop" /\ read_at = 0 /\ msg_sent_at = <<"", 0>> /\ c_deadline = 0
  /\ sent = <<>> /\ n_read = 0 /\ reads = <<>>

\* the owner sends a value stamped with the current time
E_Send ==
  /\ p_pc = "caller" /\ ~chan.closed /\ Len(sent) < MaxSends
  /\ LET v == <<Letters[Len(sent) + 1], now>> IN
       /\ chan' = send(chan, v)
       /\ sent' = Append(sent, v)
  /\ rx_woken' = (rx_woken \/ c_pc = "changed")
  /\ UNCHANGED <<now, pairs, rx_version, received, polling, pVars, cVars, n_read, reads>>

\* the owner drops the sender: the channel is closed and waiters are woken
E_Drop ==
  /\ p_pc = "caller" /\ ~chan.closed
  /\ chan' = [chan EXCEPT !.closed = TRUE]
  /\ rx_woken' = (rx_woken \/ c_pc = "changed")
  /\ UNCHANGED <<now, pairs, rx_version, received, polling, pVars, cVars, hVars>>

\* time passes while the consumer cannot run
E_Tick ==
  /\ p_pc = "caller" /\ polling = "none" /\ ~ConsumerReady
  /\ now < MaxK * Unit \/ c_pc = "sleep"
  /\ c_pc = "sleep" => now + Unit <= c_deadline
  /\ now' = now + Unit
  /\ UNCHANGED <<pairs, chanVars, received, polling, pVars, cVars, hVars>>

NextCaller ==
  \/ E_Send \/ E_Drop \/ E_Tick
  \/ PollConsumer
  \/ C_Changed \/ C_ReadAt \/ C_Borrow \/ C_Push \/ C_Sleep \/ C_Slept

SpecCaller == InitCaller /\ [][NextCaller]_vars

\* --------------------------------------------------------------------------
\* Properties
\* --------------------------------------------------------------------------
SelectDone == p_pc = "done"

\* C1: run on the test's `pairs`, the select! returns with the record being
\* exactly (a,0,0), (b,600,1000), (d,1800,2000), (i,2200,3000): c and e..h
\* are never recorded and there is no fifth record.
C1_Scenario ==
  (pairs = TestPairs /\ SelectDone) => received = expected

C1_Witness ==
  pairs = TestPairs /\ SelectDone /\ Len(received) = 4 /\ received[4][1] = "i"

\* C2: any two consecutive records are read at least THROTTLE_MS apart; the
\* first record has no predecessor and is not constrained.
C2_ThrottleSpacing ==
  \A i \in 1..(Len(received) - 1) :
    received[i + 1][3] - received[i][3] >= THROTTLE_MS

\* a record read exactly one window after its predecessor and one read later
C2_Witness ==
  /\ Len(received) >= 3
  /\ \E i \in 1..(Len(received) - 1) : received[i + 1][3] - received[i][3] = THROTTLE_MS
  /\ \E i \in 1..(Len(received) - 1) : received[i + 1][3] - received[i][3] > THROTTLE_MS

\* C3: every record carries the value and sent_at of the last send performed
\* when its read_at was taken: every send up to that one was stamped at or
\* before read_at, and every later send at or after it.
C3_Freshness ==
  /\ Len(reads) = Len(received)
  /\ \A i \in 1..Len(received) :
       /\ reads[i] \in 1..Len(sent)
       /\ <<received[i][1], received[i][2]>> = sent[reads[i]]
       /\ \A j \in 1..Len(sent) :
            /\ j <= reads[i] => sent[j][2] <= received[i][3]
            /\ j > reads[i] => sent[j][2] >= received[i][3]

\* a record of a value that had overwritten an unread one, with a later send
\* performed after it
C3_Witness ==
  \E i \in 1..Len(received) :
    /\ i > 1 /\ reads[i] > reads[i - 1] + 1
    /\ Len(sent) > reads[i]

\* C9: every record satisfies read_at >= sent_at.
C9_ReadAfterSent ==
  \A i \in 1..Len(received) : received[i][3] >= received[i][2]

\* records read in the millisecond of their send and records read later
C9_Witness ==
  /\ Len(received) >= 2
  /\ \E i \in 1..Len(received) : received[i][3] = received[i][2] /\ received[i][2] > 0
  /\ \E i \in 1..Len(received) : received[i][3] > received[i][2]

\* C10: sent_at is non-decreasing along the record; a later record never
\* carries a value sent before the value of an earlier record.
C10_SendOrder ==
  \A i \in 1..(Len(received) - 1) :
    /\ received[i][2] <= received[i + 1][2]
    /\ reads[i] < reads[i + 1]

\* three records, with a value skipped between two of them
C10_Witness ==
  /\ Len(received) >= 3 /\ Len(reads) = Len(received)
  /\ \E i \in 1..(Len(received) - 1) : reads[i + 1] > reads[i] + 1

AllSent == p_i > Len(pairs)

LastRecorded ==
  /\ Len(sent) = Len(pairs)
  /\ reads # <<>> /\ reads[Len(reads)] = Len(sent)

\* C4: once the producer has sent its last value, that value is eventually
\* appended to the record, also when it was sent during the throttle sleep
\* and no later send wakes the loop.
C4_TrailingFlush == AllSent ~> LastRecorded

\* the last value was recorded by the consumer's own return from its sleep,
\* after an intermediate value of the same window had been skipped
C4_Witness ==
  /\ AllSent /\ LastRecorded
  /\ Len(reads) >= 2 /\ reads[Len(reads)] > reads[Len(reads) - 1] + 1
  /\ received[Len(received)][3] > received[Len(received)][2]

\* C5: no send is recorded twice, and once the last value sent is recorded
\* the record is never appended to again and a consumer parked in changed()
\* stays parked until the select! drops it.
C5_ExactlyOnce ==
  /\ [](\A i, j \in 1..Len(reads) : i # j => reads[i] # reads[j])
  /\ [][(AllSent /\ LastRecorded) =>
          /\ received' = received
          /\ c_pc = "changed" => c_pc' \in {"changed", "dropped"}]_vars

C5_Witness ==
  /\ AllSent /\ LastRecorded /\ Len(received) >= 2
  /\ c_pc = "changed" /\ now >= received[Len(received)][3] + THROTTLE_MS

\* C7: a version the handle has not observed, stored while the consumer is
\* suspended in changed() or at any time after its last observation, leads to
\* changed() returning Ok with that version marked seen.
C7_NoLostWakeup ==
  (chan.version # rx_version) ~> (c_pc = "read_at" /\ rx_version = chan.version)

\* a send has overwritten the value while the consumer, having recorded
\* before, is suspended in changed()
C7_Witness ==
  /\ c_pc = "changed" /\ rx_woken /\ chan.version # rx_version
  /\ Len(received) >= 1

\* C8: the consumer loop ends without a panic when changed() fails because
\* the sender is gone.
C8_CleanTermination == c_pc # "panicked"

\* the records that carry one of the sends lo..hi
RecordsFor(lo, hi) == {i \in 1..Len(reads) : reads[i] \in lo..hi}

Recorded(k) == \E i \in 1..Len(reads) : reads[i] = k

\* sends lo..hi, each stamped less than THROTTLE_MS after the previous one,
\* and no send next to them that continues the run
MaximalChain(lo, hi) ==
  /\ lo < hi
  /\ \A j \in lo..(hi - 1) : sent[j + 1][2] - sent[j][2] < THROTTLE_MS
  /\ lo > 1 => sent[lo][2] - sent[lo - 1][2] >= THROTTLE_MS
  /\ hi < Len(sent) => sent[hi + 1][2] - sent[hi][2] >= THROTTLE_MS

\* C6 as stated: every burst of N values, each sent less than THROTTLE_MS
\* after the previous one, gets fewer than N records and its last value is
\* recorded.
C6_AsStated ==
  SelectDone =>
    \A lo, hi \in 1..Len(sent) :
      MaximalChain(lo, hi) =>
        /\ Cardinality(RecordsFor(lo, hi)) < hi - lo + 1
        /\ Recorded(hi)

\* sends lo..hi, three or more, all stamped within less than THROTTLE_MS
Window(lo, hi) ==
  /\ hi - lo + 1 >= 3
  /\ sent[hi][2] - sent[lo][2] < THROTTLE_MS

\* C6: three or more values sent within less than THROTTLE_MS of one another
\* get at most two records, fewer than their number; and a value followed by
\* no send for more than THROTTLE_MS, or by none at all, is recorded by the
\* time the select! returns.
C6_Coalescing ==
  /\ \A lo, hi \in 1..Len(sent) :
       Window(lo, hi) => Cardinality(RecordsFor(lo, hi)) <= 2
  /\ SelectDone =>
       \A hi \in 1..Len(sent) :
         (hi = Len(sent) \/ sent[hi + 1][2] - sent[hi][2] > THROTTLE_MS) => Recorded(hi)

\* a burst of three whose first and last values are recorded and whose
\* middle value is not
C6_Witness ==
  /\ SelectDone
  /\ \E lo, hi \in 1..Len(sent) :
       /\ Window(lo, hi)
       /\ Cardinality(RecordsFor(lo, hi)) = 2
       /\ Recorded(hi) /\ ~Recorded(hi - 1)

\* C11: the producer never waits for the consumer: a producer that has
\* reached its send is running, its next step stores the value whatever the
\* consumer is doing, and every value is stamped with the time `pairs`
\* schedules it for.
C11_SendNeverBlocks ==
  /\ [](/\ p_pc = "send" => polling = "producer"
        /\ \A j \in 1..Len(sent) : sent[j] = <<pairs[j][2], pairs[j][1]>>)
  /\ [][p_pc = "send" =>
          /\ p_pc' = "for"
          /\ sent' = Append(sent, <<pairs[p_i][2], pairs[p_i][1]>>)
          /\ chan'.value = <<pairs[p_i][2], pairs[p_i][1]>>
          /\ cVars' = cVars]_vars

\* a value is sent while the consumer is in its throttle sleep with an
\* earlier value still unread
C11_Witness ==
  /\ p_pc = "for" /\ polling = "producer" /\ Len(sent) >= 3
  /\ c_pc = "sleep" /\ now < c_deadline
  /\ chan.version >= rx_version + 2

\* C12: a successful changed() marks the stored version as seen, and a call
\* of changed() made with no send since suspends; it returns only for a
\* version stored after the one it last returned for.
C12_FlagCleared ==
  /\ [](c_pc = "changed" /\ ~rx_woken => chan.version = rx_version)
  /\ [][/\ (c_pc # "read_at" /\ c_pc' = "read_at") =>
             (chan.version > rx_version /\ rx_version' = chan.version)
        /\ (polling = "consumer" /\ c_pc = "loop" /\ chan.version = rx_version) =>
             (c_pc' = "changed" /\ polling' = "none")]_vars

\* after a record and its throttle sleep the consumer is suspended in
\* changed() again, no send having followed
C12_Witness ==
  /\ c_pc = "changed" /\ ~rx_woken /\ Len(received) >= 1
  /\ chan.version = rx_version
  /\ now >= received[Len(received)][3] + THROTTLE_MS

\* C13: a value sent before the sender is dropped is not stranded: the
\* consumer observes the closed channel only after the last value sent has
\* been recorded.
C13_NoStrandedValue ==
  (chan.closed /\ c_pc = "panicked" /\ Len(sent) > 0) =>
    /\ reads # <<>> /\ reads[Len(reads)] = Len(sent)
    /\ <<received[Len(received)][1], received[Len(received)][2]>> = sent[Len(sent)]

\* the last value was sent and the sender dropped during the throttle sleep
\* that followed an earlier record; the value was recorded at the end of
\* that sleep, and the closed channel observed one sleep later
C13_Witness ==
  /\ chan.closed /\ c_pc = "panicked" /\ Len(received) >= 2
  /\ reads[Len(reads)] = Len(sent)
  /\ received[Len(received)][3] = received[Len(received) - 1][3] + THROTTLE_MS
  /\ received[Len(received)][2] < received[Len(received)][3]
  /\ now = received[Len(received)][3] + THROTTLE_MS

\* C14: from changed() returning to the registration of the throttle sleep
\* the consumer is the running branch, and no step of the producer, no send
\* and no passage of time falls between its steps.
C14_YieldPoints ==
  /\ [](c_pc \in {"read_at", "borrow", "push", "throttle"} => polling = "consumer")
  /\ [][(c_pc \in {"read_at", "borrow", "push", "throttle"}) =>
          /\ sent' = sent /\ chan' = chan /\ now' = now
          /\ pVars' = pVars
          /\ c_pc' # c_pc]_vars

\* the consumer is about to push while the producer's timer for its next
\* send is already due
C14_Witness ==
  /\ c_pc = "push" /\ polling = "consumer"
  /\ p_pc = "sleep" /\ now >= p_deadline
  /\ Len(received) >= 1

\* C15: the producer branch completes, and the select! cancels the consumer,
\* only after the last value sent has been recorded: the consumer is then
\* suspended in changed() or in its throttle sleep with every version seen,
\* and the record does not change once the select! has returned.
C15_CancelAfterFlush ==
  /\ [](SelectDone => (LastRecorded /\ c_pc = "dropped" /\ chan.version = rx_version))
  /\ [][(p_pc # "done" /\ p_pc' = "done") =>
          /\ c_pc \in {"changed", "sleep"}
          /\ chan.version = rx_version /\ ~rx_woken
          /\ LastRecorded /\ received' = received]_vars
  /\ [][SelectDone => received' = received]_vars

\* the test's run: the select! returns at 5500 ms, i having been recorded
\* at 3000 ms
C15_Witness ==
  /\ pairs = TestPairs /\ SelectDone /\ now = 2200 + wrap_up_time(TestPairs)
  /\ received[Len(received)] = <<"i", 2200, 3000>>
  /\ c_pc = "dropped"

Max(a, b) == IF a >= b THEN a ELSE b

\* C16: the first record is read at the time of the first send; every later
\* record is read at the later of the end of the throttle window of its
\* predecessor and the first send performed after the predecessor's read.
C16_WakeTime ==
  \A i \in 1..Len(received) :
    IF i = 1
      THEN received[i][3] = sent[1][2]
      ELSE received[i][3] =
             Max(received[i - 1][3] + THROTTLE_MS, sent[reads[i - 1] + 1][2])

\* one record read at the end of the window and one read when its value was
\* sent, later than the window
C16_Witness ==
  /\ Len(received) >= 3 /\ Len(reads) = Len(received)
  /\ \E i \in 2..Len(received) :
       /\ received[i][3] = received[i - 1][3] + THROTTLE_MS
       /\ sent[reads[i - 1] + 1][2] < received[i][3]
  /\ \E i \in 2..Len(received) :
       /\ received[i][3] > received[i - 1][3] + THROTTLE_MS
       /\ received[i][3] = sent[reads[i - 1] + 1][2]

\* C17: the value the channel is created with is never processed: until the
\* first send the record is empty and the consumer has not got past
\* changed(), and no record carries the initial value.
C17_InitialValueSkipped ==
  /\ Len(sent) = 0 => (received = <<>> /\ c_pc \in {"loop", "changed"})
  /\ \A i \in 1..Len(received) :
       /\ <<received[i][1], received[i][2]>> # channel.value
       /\ received[i][1] # ""

\* time has passed with the consumer suspended in its first changed() and
\* nothing sent yet
C17_Witness ==
  /\ Len(sent) = 0 /\ now > 0
  /\ c_pc = "changed" /\ ~rx_woken /\ polling = "producer"
  /\ received = <<>>

\* C18: the step that reads the current value changes neither the stored
\* value nor what the handle has seen, and the seen version changes only in
\* the step in which changed() returns Ok.
C18_BorrowFrame ==
  [][/\ (c_pc = "borrow" /\ c_pc' = "push") =>
          (chan' = chan /\ rx_version' = rx_version /\ rx_woken' = rx_woken
           /\ msg_sent_at' = chan.value)
     /\ rx_version' # rx_version =>
          (c_pc \in {"loop", "changed"} /\ c_pc' = "read_at")]_vars

\* the current value has been read for a record after the first, and the
\* slot and the seen version are as changed() left them
C18_Witness ==
  /\ c_pc = "push" /\ Len(received) >= 1
  /\ msg_sent_at = chan.value /\ msg_sent_at = sent[Len(sent)]
  /\ rx_version = chan.version /\ chan.version = Len(sent)

====
